---- MODULE Spec2Model ----
(***************************************************************************)
(* Citation management and source ranking of the research chatbot:         *)
(* CitationManager (core/agents/citation_manager.py), the ranking and      *)
(* deduplication helpers of SearchAgent (core/agents/search_agent.py), and *)
(* the router -> search -> synthesis pipeline (main.py).                    *)
(*                                                                         *)
(* Strings that the code inspects character by character (identifiers,     *)
(* the annotated text) are sequences of one-character strings.  A Python   *)
(* dict is a sequence of <<key, value>> pairs in insertion order.  Floats  *)
(* are exact: a relevance score is an integer number of hundredths and a   *)
(* confidence is a fraction [num, den] of hundredths.                      *)
(***************************************************************************)
EXTENDS Integers, Sequences, FiniteSets, TLC

(* ---------------------------- record fields --------------------------- *)
\* every field of the records below, by the record that carries it; records
\* are written with their fields in this order throughout
FieldsOf ==
  [n |-> "bibliography row", source_id |-> "bibliography row",
   key |-> "sort entry", item |-> "sort entry",
   source_registry |-> "CitationManager",
   citation_counter |-> "CitationManager", url_to_id |-> "CitationManager",
   url |-> "Source", title |-> "Source", domain |-> "Source",
   relevance_score |-> "Source", timestamp |-> "Source",
   score |-> "search hit",
   num |-> "fraction", den |-> "fraction",
   called |-> "call record", op |-> "call record", source |-> "call record",
   type |-> "message", content |-> "message, CitedContent",
   source_ids |-> "CitedContent", sources_list |-> "final response",
   confidence |-> "CitedContent", value |-> "call record",
   messages |-> "AgentState", sources |-> "AgentState",
   synthesized_content |-> "AgentState", current_query |-> "AgentState",
   processing_stage |-> "AgentState"]

(* ------------------------------ bounds -------------------------------- *)
NumUrls == 3        \* distinct urls offered to add_source under Spec
MaxIds == 2         \* longest identifier list passed to calculate_confidence
MaxSources == 11    \* largest registry built under SpecBib
MaxTextLen == 3     \* longest text annotated under SpecCite
MaxRank == 3        \* longest list ranked under SpecRank
MaxQueries == 2     \* top-level queries run under SpecPipe
MaxHits == 2        \* search hits returned for one query under SpecPipe

(* ------------------------- program constants -------------------------- *)
One == 100          \* the float 1.0, in hundredths
BibCap == 10        \* "count < 10" in format_sources_list
RegistryCap == 10   \* ranked_sources[:10] in search_and_analyze
CiteCap == 5        \* keys()[:5] in synthesize_response

(* ------------------------------ input sets ---------------------------- *)
Urls == 1..NumUrls
Scores == {-50, 60, 150}
RankScores == {-50, 60, 80}
Domains == {"wikipedia.org", "reddit.com", "unknown.xyz"}
Chars == {"a", ".", " ", "\n"}

(* ------------------------------ strings ------------------------------- *)
DigitChars == <<"0", "1", "2", "3", "4", "5", "6", "7", "8", "9">>

RECURSIVE IntToStr(_)
IntToStr(n) ==
  IF n < 10 THEN <<DigitChars[n + 1]>>
  ELSE IntToStr(n \div 10) \o <<DigitChars[(n % 10) + 1]>>

IsDigit(c) == \E d \in 1..10 : DigitChars[d] = c

DigitVal(c) == (CHOOSE d \in 1..10 : DigitChars[d] = c) - 1

RECURSIVE StrToInt(_)
StrToInt(s) ==
  IF Len(s) = 1 THEN DigitVal(s[1])
  ELSE 10 * StrToInt(SubSeq(s, 1, Len(s) - 1)) + DigitVal(s[Len(s)])

\* s.split(sep): the pieces of s between occurrences of the character sep
RECURSIVE str_split(_, _)
str_split(s, sep) ==
  IF \A i \in 1..Len(s) : s[i] # sep THEN <<s>>
  ELSE LET k == CHOOSE i \in 1..Len(s) :
                  s[i] = sep /\ \A j \in 1..(i - 1) : s[j] # sep
       IN <<SubSeq(s, 1, k - 1)>> \o str_split(SubSeq(s, k + 1, Len(s)), sep)

\* sep.join(parts)
RECURSIVE str_join(_, _)
str_join(sep, parts) ==
  IF Len(parts) = 0 THEN <<>>
  ELSE IF Len(parts) = 1 THEN parts[1]
  ELSE parts[1] \o sep \o str_join(sep, Tail(parts))

\* f"src_{n}"
FormatId(n) == <<"s", "r", "c", "_">> \o IntToStr(n)

(* ------------------------------ dicts --------------------------------- *)
dict_keys(d) == [i \in 1..Len(d) |-> d[i][1]]

dict_values(d) == [i \in 1..Len(d) |-> d[i][2]]

dict_has(d, k) == \E i \in 1..Len(d) : d[i][1] = k

dict_get(d, k) == d[CHOOSE i \in 1..Len(d) : d[i][1] = k][2]

\* d[k] = v: an existing key keeps its position, a new key goes last
dict_set(d, k, v) ==
  IF dict_has(d, k)
  THEN [i \in 1..Len(d) |-> IF d[i][1] = k THEN <<k, v>> ELSE d[i]]
  ELSE Append(d, <<k, v>>)

\* s[:n]
Take(s, n) == SubSeq(s, 1, IF Len(s) < n THEN Len(s) ELSE n)

(* ------------------------------ sorted -------------------------------- *)
\* keys are pairs <<inf, n>>: inf = 1 stands for float('inf')
KeyLess(a, b) == a[1] < b[1] \/ (a[1] = b[1] /\ a[2] < b[2])

\* x comes strictly before y in the requested direction
Before(x, y, reverse) ==
  IF reverse THEN KeyLess(y.key, x.key) ELSE KeyLess(x.key, y.key)

\* sorted(..., key=..., reverse=...) on a list of [key, item] records: a
\* stable sort, also with reverse=True (equal keys keep the input order)
RECURSIVE sorted(_, _)
sorted(s, reverse) ==
  IF Len(s) = 0 THEN <<>>
  ELSE LET t == sorted(SubSeq(s, 1, Len(s) - 1), reverse)
           x == s[Len(s)]
           k == Cardinality({i \in 1..Len(t) : ~Before(x, t[i], reverse)})
       IN SubSeq(t, 1, k) \o <<x>> \o SubSeq(t, k + 1, Len(t))

(* --------------------------- CitationManager -------------------------- *)
\* Source: the fields the citation logic reads (id, snippet and timestamp
\* are carried along unread; timestamp is kept as a logical discovery time)
MkSource(url, domain, score, ts) ==
  [url |-> url, title |-> <<"T", url>>, domain |-> domain,
   relevance_score |-> score, timestamp |-> ts]

\* CitationManager(): __init__ only calls reset on the new object
NewManager ==
  [source_registry |-> <<>>, citation_counter |-> 1, url_to_id |-> <<>>]

\* faulty variant: the counter survives the reset
reset_keep_counter(m) ==
  [source_registry |-> <<>>, citation_counter |-> m.citation_counter,
   url_to_id |-> <<>>]

reset(m) ==
  [source_registry |-> <<>>, citation_counter |-> 1, url_to_id |-> <<>>]

\* the identifier add_source returns
add_source_id(m, source) ==
  IF \E i \in 1..Len(m.source_registry) :
        m.source_registry[i][2].url = source.url
  THEN m.source_registry[
         CHOOSE i \in 1..Len(m.source_registry) :
           /\ m.source_registry[i][2].url = source.url
           /\ \A j \in 1..(i - 1) : m.source_registry[j][2].url # source.url][1]
  ELSE FormatId(m.citation_counter)

\* faulty variant: no lookup of the url
add_source_nodedup(m, source) ==
  [m EXCEPT !.source_registry =
              dict_set(@, FormatId(m.citation_counter), source),
            !.citation_counter = @ + 1]

\* faulty variant: a duplicate url still consumes a number
add_source_burn(m, source) ==
  IF \E i \in 1..Len(m.source_registry) :
        m.source_registry[i][2].url = source.url
  THEN [m EXCEPT !.citation_counter = @ + 1]
  ELSE [m EXCEPT !.source_registry =
                   dict_set(@, FormatId(m.citation_counter), source),
                 !.citation_counter = @ + 1]

\* faulty variant: the counter is never advanced
add_source_noincr(m, source) ==
  IF \E i \in 1..Len(m.source_registry) :
        m.source_registry[i][2].url = source.url
  THEN m
  ELSE [m EXCEPT !.source_registry =
                   dict_set(@, FormatId(m.citation_counter), source)]

\* the manager after add_source
add_source(m, source) ==
  IF \E i \in 1..Len(m.source_registry) :
        m.source_registry[i][2].url = source.url
  THEN m
  ELSE [m EXCEPT !.source_registry =
                   dict_set(@, FormatId(m.citation_counter), source),
                 !.citation_counter = @ + 1]

get_citation_number(m, source_id) ==
  LET source_ids == dict_keys(m.source_registry)
  IN IF \E i \in 1..Len(source_ids) : source_ids[i] = source_id
     THEN CHOOSE i \in 1..Len(source_ids) :
            source_ids[i] = source_id
            /\ \A j \in 1..(i - 1) : source_ids[j] # source_id
     ELSE 0

\* faulty variant: only the first digit of the suffix is parsed
get_id_number_first_digit(item) ==
  LET parts == str_split(item[1], "_")
  IN IF Len(parts) < 2 THEN <<1, 0>>
     ELSE IF Len(parts[2]) = 0 \/ ~IsDigit(parts[2][1])
     THEN <<1, 0>>
     ELSE <<0, DigitVal(parts[2][1])>>

\* the sort key of format_sources_list
get_id_number(item) ==
  LET parts == str_split(item[1], "_")
  IN IF Len(parts) < 2 THEN <<1, 0>>
     ELSE IF Len(parts[2]) = 0 \/ \E i \in 1..Len(parts[2]) : ~IsDigit(parts[2][i])
     THEN <<1, 0>>
     ELSE <<0, StrToInt(parts[2])>>

\* faulty variant: the cap is tested with <=
RECURSIVE bib_rows_off_by_one(_, _, _, _)
bib_rows_off_by_one(sorted_sources, i, seen_urls, count) ==
  IF i > Len(sorted_sources) THEN <<>>
  ELSE LET source_id == sorted_sources[i][1]
           source == sorted_sources[i][2]
       IN IF source.url \notin seen_urls /\ count <= BibCap
          THEN <<[n |-> count + 1, source_id |-> source_id,
                  url |-> source.url, title |-> source.title,
                  domain |-> source.domain]>>
               \o bib_rows_off_by_one(sorted_sources, i + 1,
                                      seen_urls \cup {source.url}, count + 1)
          ELSE bib_rows_off_by_one(sorted_sources, i + 1, seen_urls, count)

\* the loop of format_sources_list over the sorted items
RECURSIVE bib_rows(_, _, _, _)
bib_rows(sorted_sources, i, seen_urls, count) ==
  IF i > Len(sorted_sources) THEN <<>>
  ELSE LET source_id == sorted_sources[i][1]
           source == sorted_sources[i][2]
       IN IF source.url \notin seen_urls /\ count < BibCap
          THEN <<[n |-> count + 1, source_id |-> source_id,
                  url |-> source.url, title |-> source.title,
                  domain |-> source.domain]>>
               \o bib_rows(sorted_sources, i + 1,
                           seen_urls \cup {source.url}, count + 1)
          ELSE bib_rows(sorted_sources, i + 1, seen_urls, count)

\* the numbered rows "n. [title](url) - domain" that follow the header;
\* source_id records which registry entry a row renders (it is not printed)
format_sources_list(m) ==
  LET items == m.source_registry
      keyed == [i \in 1..Len(items) |->
                  [key |-> get_id_number(items[i]), item |-> items[i]]]
      s == sorted(keyed, FALSE)
      sorted_sources == [i \in 1..Len(s) |-> s[i].item]
  IN bib_rows(sorted_sources, 1, {}, 0)

RECURSIVE total_relevance(_, _)
total_relevance(m, source_ids) ==
  IF Len(source_ids) = 0 THEN 0
  ELSE (IF dict_has(m.source_registry, source_ids[1])
        THEN dict_get(m.source_registry, source_ids[1]).relevance_score
        ELSE 0)
       + total_relevance(m, Tail(source_ids))

\* faulty variant: the mean is returned without the cap
calculate_confidence_nocap(m, source_ids) ==
  IF Len(source_ids) = 0 THEN [num |-> 0, den |-> 1]
  ELSE [num |-> total_relevance(m, source_ids), den |-> Len(source_ids)]

\* min(total_relevance / len(source_ids), 1.0) as a fraction of hundredths
calculate_confidence(m, source_ids) ==
  IF Len(source_ids) = 0 THEN [num |-> 0, den |-> 1]
  ELSE LET total == total_relevance(m, source_ids)
       IN IF total > One * Len(source_ids)
          THEN [num |-> One, den |-> 1]
          ELSE [num |-> total, den |-> Len(source_ids)]

IsSpace(c) == c \in {" ", "\n", "\t"}

IsTerminator(c) == c \in {".", "!", "?"}

\* re.split(r'(?<=[.!?])\s+', text): cut at every whitespace run that
\* directly follows '.', '!' or '?'; the run itself is dropped
RECURSIVE re_split_from(_, _, _, _)
re_split_from(text, i, cur, acc) ==
  IF i > Len(text) THEN Append(acc, cur)
  ELSE IF i > 1 /\ IsSpace(text[i]) /\ IsTerminator(text[i - 1])
  THEN LET rest == {j \in i..Len(text) : ~IsSpace(text[j])}
           next == IF rest = {} THEN Len(text) + 1
                   ELSE CHOOSE j \in rest : \A k \in rest : j <= k
       IN re_split_from(text, next, <<>>, Append(acc, cur))
  ELSE re_split_from(text, i + 1, Append(cur, text[i]), acc)

re_split(text) == re_split_from(text, 1, <<>>, <<>>)

insert_citations(text, citation) ==
  LET sentences == re_split(text)
      last == Len(sentences)
  IN str_join(<<" ">>, [sentences EXCEPT ![last] = @ \o citation])

citation_marker(m, source_id) ==
  <<"[">> \o IntToStr(get_citation_number(m, source_id)) \o <<"]">>

RECURSIVE cite_loop(_, _, _)
cite_loop(m, cited_content, source_ids) ==
  IF Len(source_ids) = 0 THEN cited_content
  ELSE cite_loop(m,
                 insert_citations(cited_content,
                                  citation_marker(m, source_ids[1])),
                 Tail(source_ids))

create_cited_content(m, content, source_ids) ==
  [content |-> cite_loop(m, content, source_ids),
   source_ids |-> source_ids,
   confidence |-> calculate_confidence(m, source_ids)]

(* ----------------------------- SearchAgent ---------------------------- *)
domain_weights ==
  [d \in {"wikipedia.org", "reddit.com", "stackoverflow.com", "github.com",
          "medium.com"} |->
     CASE d = "wikipedia.org" -> 90
       [] d = "reddit.com" -> 70
       [] d = "stackoverflow.com" -> 80
       [] d = "github.com" -> 80
       [] d = "medium.com" -> 70]

\* domain_weights.get(domain, 0.5)
domain_weight(domain) ==
  IF domain \in DOMAIN domain_weights THEN domain_weights[domain] ELSE 50

\* the in-place update of the loop of rank_sources; every score offered is
\* a multiple of 0.1, so the halving is exact
blend(sources) ==
  [i \in 1..Len(sources) |->
     [sources[i] EXCEPT !.relevance_score =
        (@ + domain_weight(sources[i].domain)) \div 2]]

\* faulty variant: ascending sort, then reversed
rank_sources_reversed(sources) ==
  LET b == blend(sources)
      keyed == [i \in 1..Len(b) |->
                  [key |-> <<0, b[i].relevance_score>>, item |-> b[i]]]
      s == sorted(keyed, FALSE)
  IN [i \in 1..Len(s) |-> s[Len(s) + 1 - i].item]

rank_sources(sources) ==
  LET b == blend(sources)
      keyed == [i \in 1..Len(b) |->
                  [key |-> <<0, b[i].relevance_score>>, item |-> b[i]]]
      s == sorted(keyed, TRUE)
  IN [i \in 1..Len(s) |-> s[i].item]

RECURSIVE dedup_from(_, _, _)
dedup_from(sources, i, seen_urls) ==
  IF i > Len(sources) THEN <<>>
  ELSE IF sources[i].url \notin seen_urls
  THEN <<sources[i]>> \o dedup_from(sources, i + 1, seen_urls \cup {sources[i].url})
  ELSE dedup_from(sources, i + 1, seen_urls)

deduplicate_sources(sources) == dedup_from(sources, 1, {})

(* ------------------------------- state -------------------------------- *)
VARIABLES
  cm,        \* the CitationManager under test
  ret,       \* the last operation called on it: name, arguments, result
  minted,    \* history: numeric suffixes minted since the last reset, in order
  issued,    \* history: <<url, identifier>> pairs returned since the last reset
  conf_in,   \* the identifier list calculate_confidence is called with
  cite_in,   \* the arguments create_cited_content is called with
  rank_in,   \* the list handed to rank_sources
  rank_out,  \* whether rank_sources was called, and what it returned
  pc,        \* the graph node to run next, "idle" between two app.invoke
  gstate,    \* the AgentState flowing through the graph
  search_cm, \* search_agent.citation_manager
  synth_cm,  \* synthesis_agent.citation_manager
  qn,        \* number of the top-level query being served (0 before any)
  found      \* history: the hits the searches of query qn returned

regVars == <<cm, ret, minted, issued>>
callVars == <<conf_in, cite_in, rank_in, rank_out>>
pipeVars == <<pc, gstate, search_cm, synth_cm, qn, found>>
vars == <<cm, ret, minted, issued, conf_in, cite_in, rank_in, rank_out,
          pc, gstate, search_cm, synth_cm, qn, found>>

\* sequences over S of length at most n
RECURSIVE SeqsUpTo(_, _)
SeqsUpTo(S, n) ==
  IF n = 0 THEN {<<>>}
  ELSE LET shorter == SeqsUpTo(S, n - 1)
       IN shorter \cup {Append(t, x) : t \in {u \in shorter : Len(u) = n - 1}, x \in S}

IdPool == {FormatId(k) : k \in 1..NumUrls}

IdSuffix(source_id) == StrToInt(SubSeq(source_id, 5, Len(source_id)))

RegistryInit ==
  /\ cm = NewManager
  /\ ret = [op |-> "init"]
  /\ minted = <<>>
  /\ issued = {}

NoCall == [called |-> FALSE]

RankIdle == rank_in = <<>> /\ rank_out = NoCall

CiteIdle ==
  /\ conf_in = <<>>
  /\ cite_in = [content |-> <<>>, source_ids |-> <<>>]

\* the input of app.invoke, before any message is merged in; the keys the
\* nodes return that AgentState does not declare are not kept
InitialState ==
  [messages |-> <<>>, sources |-> <<>>, synthesized_content |-> <<>>,
   current_query |-> 0, processing_stage |-> "initialized"]

\* module load of main.py: both agents construct their own manager
PipeIdle ==
  /\ pc = "idle"
  /\ gstate = InitialState
  /\ search_cm = reset(NewManager)    \* the agents reset once more
  /\ synth_cm = reset(NewManager)
  /\ qn = 0
  /\ found = <<>>

(* --------------- Spec: one CitationManager, any call order ------------ *)
Init == RegistryInit /\ RankIdle /\ CiteIdle /\ PipeIdle

Reset ==
  /\ cm' = reset(cm)
  /\ ret' = [op |-> "reset"]
  /\ minted' = <<>>
  /\ issued' = {}
  /\ UNCHANGED <<callVars, pipeVars>>

AddSourceCall(source) ==
  LET source_id == add_source_id(cm, source)
  IN /\ cm' = add_source(cm, source)
     /\ ret' = [op |-> "add_source", source |-> source, value |-> source_id]
     /\ minted' = IF dict_has(cm.source_registry, source_id) THEN minted
                  ELSE Append(minted, IdSuffix(source_id))
     /\ issued' = issued \cup {<<source.url, source_id>>}
     /\ UNCHANGED <<callVars, pipeVars>>

AddSource ==
  \E url \in Urls, score \in Scores :
    AddSourceCall(MkSource(url, "unknown.xyz", score, 0))

Next == Reset \/ AddSource

Spec == Init /\ [][Next]_vars

(* ------------ SpecConf: calculate_confidence on a list of ids --------- *)
\* urls are compared for equality only, so the next new url is named by the
\* next unused number; any url already stored may be offered again
InitConf ==
  /\ RegistryInit
  /\ RankIdle
  /\ PipeIdle
  /\ cite_in = [content |-> <<>>, source_ids |-> <<>>]
  /\ conf_in \in SeqsUpTo(IdPool, MaxIds)

ConfAdd ==
  \E url \in Urls, score \in Scores :
    /\ url <= Len(cm.source_registry) + 1
    /\ AddSourceCall(MkSource(url, "unknown.xyz", score, 0))

CalculateConfidence ==
  /\ ret' = [op |-> "calculate_confidence", source_ids |-> conf_in,
             value |-> calculate_confidence(cm, conf_in)]
  /\ UNCHANGED <<cm, minted, issued, callVars, pipeVars>>

NextConf == Reset \/ ConfAdd \/ CalculateConfidence

SpecConf == InitConf /\ [][NextConf]_vars

(* --------- SpecBib: a registry grown past the bibliography cap -------- *)
BibAdd ==
  \E url \in 1..MaxSources, domain \in {"wikipedia.org", "unknown.xyz"} :
    /\ url <= Len(cm.source_registry) + 1
    /\ url > 3 => domain = "unknown.xyz"
    /\ AddSourceCall(MkSource(url, domain, 60, 0))

BibFormat ==
  /\ ret' = [op |-> "format_sources_list", value |-> format_sources_list(cm)]
  /\ UNCHANGED <<cm, minted, issued, callVars, pipeVars>>

NextBib == Reset \/ BibAdd \/ BibFormat

SpecBib == Init /\ [][NextBib]_vars

(* ------------- SpecCite: annotating a text with citations ------------- *)
CiteAdd ==
  \E url \in Urls :
    /\ url <= Len(cm.source_registry) + 1
    /\ AddSourceCall(MkSource(url, "unknown.xyz", 60, 0))

InitCite ==
  /\ RegistryInit
  /\ RankIdle
  /\ PipeIdle
  /\ conf_in = <<>>
  /\ cite_in \in [content : SeqsUpTo(Chars, MaxTextLen),
                  source_ids : SeqsUpTo(IdPool, MaxIds)]

CreateCitedContent ==
  /\ ret' = [op |-> "create_cited_content",
             value |-> create_cited_content(cm, cite_in.content,
                                            cite_in.source_ids)]
  /\ UNCHANGED <<cm, minted, issued, callVars, pipeVars>>

NextCite == Reset \/ CiteAdd \/ CreateCitedContent

SpecCite == InitCite /\ [][NextCite]_vars

(* ------------------ SpecRank: rank_sources on a list ------------------ *)
\* the i-th source of a list has url i, so that the sources of one list are
\* distinct objects that can be told apart after the sort
RankInputs ==
  UNION {[1..n -> [domain : Domains, score : RankScores]] : n \in 0..MaxRank}

InitRank ==
  /\ RegistryInit
  /\ CiteIdle
  /\ PipeIdle
  /\ rank_out = NoCall
  /\ \E choice \in RankInputs :
       rank_in = [i \in 1..Len(choice) |->
                    MkSource(i, choice[i].domain, choice[i].score, 0)]

RankSources ==
  /\ ~rank_out.called
  /\ rank_out' = [called |-> TRUE, value |-> rank_sources(rank_in)]
  /\ UNCHANGED <<regVars, conf_in, cite_in, rank_in, pipeVars>>

NextRank == RankSources

SpecRank == InitRank /\ [][NextRank]_vars

(* ------- SpecPipe: queries through router -> search -> synthesis ------ *)
\* what the search provider may return for one query, all sub-queries
\* concatenated; a hit's timestamp is the number of the query that found it
PipeUrls == {1, 2, 3}

PipeDomain(url) ==
  CASE url = 1 -> "unknown.xyz"
    [] url = 2 -> "wikipedia.org"
    [] OTHER -> "reddit.com"

Hits(q) ==
  {[i \in 1..Len(h) |-> MkSource(h[i], PipeDomain(h[i]), 60, q)] :
     h \in SeqsUpTo(PipeUrls, MaxHits)}

LlmTexts == {<<"a", ".">>, <<"a", ".", "\n", "b", ".">>}

RECURSIVE add_all(_, _)
add_all(m, sources) ==
  IF Len(sources) = 0 THEN m
  ELSE add_all(add_source(m, sources[1]), Tail(sources))

\* the local dict source_registry built by the loop of search_and_analyze
RECURSIVE registry_of(_, _)
registry_of(m, sources) ==
  IF Len(sources) = 0 THEN <<>>
  ELSE LET rest == registry_of(m, SubSeq(sources, 1, Len(sources) - 1))
           last == sources[Len(sources)]
           before == add_all(m, SubSeq(sources, 1, Len(sources) - 1))
       IN dict_set(rest, add_source_id(before, last), last)

\* app.invoke({...initial values...}): every key but messages is overwritten
Invoke ==
  /\ pc = "idle"
  /\ qn < MaxQueries
  /\ qn' = qn + 1
  /\ gstate' = [InitialState EXCEPT
                  !.messages = Append(gstate.messages,
                                      [type |-> "human", content |-> qn + 1])]
  /\ found' = <<>>
  /\ pc' = "router"
  /\ UNCHANGED <<regVars, callVars, search_cm, synth_cm>>

router_node ==
  /\ pc = "router"
  /\ gstate' = [gstate EXCEPT
                  !.current_query = gstate.messages[Len(gstate.messages)].content,
                  !.processing_stage = "routing_complete"]
  /\ pc' = "search"
  /\ UNCHANGED <<regVars, callVars, search_cm, synth_cm, qn, found>>

search_node ==
  /\ pc = "search"
  /\ \E all_sources \in Hits(qn) :
       LET unique_sources == deduplicate_sources(all_sources)
           ranked_sources == rank_sources(unique_sources)
           top == Take(ranked_sources, RegistryCap)
           fresh == reset(search_cm)
       IN /\ search_cm' = add_all(fresh, top)
          /\ gstate' = [gstate EXCEPT
                          !.sources = registry_of(fresh, top),
                          !.processing_stage = "search_complete"]
          /\ found' = all_sources
  /\ pc' = "synthesis"
  /\ UNCHANGED <<regVars, callVars, synth_cm, qn>>

\* the language model or the search provider raises: the query is abandoned
\* after the reset and the command loop goes on to the next input
search_fails ==
  /\ pc = "search"
  /\ search_cm' = reset(search_cm)
  /\ pc' = "idle"
  /\ UNCHANGED <<regVars, callVars, gstate, synth_cm, qn, found>>

synthesis_node ==
  /\ pc = "synthesis"
  /\ \E synthesized_text \in LlmTexts :
       LET loaded == add_all([reset(synth_cm) EXCEPT !.source_registry = <<>>],
                             dict_values(gstate.sources))
           top_source_ids == Take(dict_keys(loaded.source_registry), CiteCap)
           cited_content == create_cited_content(loaded, synthesized_text,
                                                 top_source_ids)
           final_response == [content |-> cited_content.content,
                              sources_list |-> format_sources_list(loaded)]
       IN /\ synth_cm' = loaded
          /\ gstate' = [gstate EXCEPT
                          !.synthesized_content = <<cited_content>>,
                          !.processing_stage = "synthesis_complete",
                          !.messages = Append(@, [type |-> "ai",
                                                  content |-> final_response])]
  /\ pc' = "idle"
  /\ UNCHANGED <<regVars, callVars, search_cm, qn, found>>

synthesis_fails ==
  /\ pc = "synthesis"
  /\ synth_cm' = add_all([reset(synth_cm) EXCEPT !.source_registry = <<>>],
                         dict_values(gstate.sources))
  /\ pc' = "idle"
  /\ UNCHANGED <<regVars, callVars, gstate, search_cm, qn, found>>

NextPipe ==
  \/ Invoke
  \/ router_node
  \/ search_node
  \/ search_fails
  \/ synthesis_node
  \/ synthesis_fails

SpecPipe == Init /\ [][NextPipe]_vars

(* ------------------------------ properties ---------------------------- *)
Registry == cm.source_registry

UrlStored(m, url) ==
  \E i \in 1..Len(m.source_registry) : m.source_registry[i][2].url = url

\* C1: after any sequence of reset and add_source calls, no two distinct
\* identifiers of the registry map to sources with the same url.
C1_NoDuplicateUrls ==
  \A i, j \in 1..Len(Registry) :
    i # j => /\ Registry[i][1] # Registry[j][1]
             /\ Registry[i][2].url # Registry[j][2].url

\* a duplicate url was offered after two sources had been stored
C1_Witness ==
  /\ Len(Registry) = 2
  /\ ret.op = "add_source"
  /\ ret.value = FormatId(1)

\* C2: add_source of a url that is already stored returns the identifier
\* stored for that url and leaves keys, sources and counter unchanged; adding
\* the same source again returns the same identifier, and no add_source grows
\* the registry by more than one entry.
C2_DuplicateAddIsNoOp ==
  [][ret'.op = "add_source" =>
        /\ UrlStored(cm, ret'.source.url) =>
             /\ cm' = cm
             /\ \E i \in 1..Len(Registry) :
                  /\ Registry[i][2].url = ret'.source.url
                  /\ Registry[i][1] = ret'.value
        /\ (ret.op = "add_source" /\ ret.source = ret'.source) =>
             /\ ret'.value = ret.value
             /\ cm' = cm
        /\ Len(cm'.source_registry) <= Len(Registry) + 1]_vars

\* the source offered last has the url of a stored source but is not that
\* source (it comes from another batch, with another score)
C2_Witness ==
  /\ ret.op = "add_source"
  /\ dict_has(Registry, ret.value)
  /\ dict_get(Registry, ret.value) # ret.source
  /\ dict_get(Registry, ret.value).url = ret.source.url

\* C3: between two resets the identifiers minted for new urls carry the
\* suffixes 1, 2, 3, ... in that order, no identifier is returned for two
\* different urls, and a reset restarts the counter at 1.
C3_MonotonicIds ==
  /\ minted = [i \in 1..Len(minted) |-> i]
  /\ \A p, q \in issued : p[2] = q[2] => p[1] = q[1]
  /\ ret.op = "reset" => cm.citation_counter = 1 /\ Len(Registry) = 0

\* three urls were given identifiers, with a duplicate offered in between
C3_Witness ==
  /\ Len(minted) = 3
  /\ ret.op = "add_source"
  /\ ret.value = FormatId(2)

\* C4: every identifier listed by format_sources_list gets the row number
\* that get_citation_number returns for it.
C4_RowIsCitationNumber ==
  ret.op = "format_sources_list" =>
    \A i \in 1..Len(ret.value) :
      ret.value[i].n = get_citation_number(cm, ret.value[i].source_id)

\* a bibliography of a registry larger than the cap, two-digit suffixes in it
C4_Witness ==
  /\ ret.op = "format_sources_list"
  /\ Len(Registry) > BibCap
  /\ \E i \in 1..Len(ret.value) : ret.value[i].source_id = FormatId(BibCap)

RECURSIVE SumOver(_, _)
SumOver(f, S) ==
  IF S = {} THEN 0
  ELSE LET x == CHOOSE y \in S : TRUE IN f[x] + SumOver(f, S \ {x})

\* positions of source_ids whose identifier is a key of the registry
PresentAt(source_ids) ==
  {i \in 1..Len(source_ids) : dict_has(Registry, source_ids[i])}

ScoreAt(source_ids) ==
  [i \in PresentAt(source_ids) |->
     dict_get(Registry, source_ids[i]).relevance_score]

\* the fraction v equals min(num / den, 1.0), for den > 0
IsCappedRatio(v, num, den) ==
  IF num > One * den THEN v.num = One * v.den
  ELSE v.num * den = num * v.den

\* C5 as stated: the mean over the identifiers present in the registry,
\* absent identifiers not counted in the denominator, capped at 1.0.
C5_MeanOverPresent ==
  ret.op = "calculate_confidence" =>
    IF Len(ret.source_ids) = 0 THEN ret.value.num = 0
    ELSE PresentAt(ret.source_ids) # {} =>
           IsCappedRatio(ret.value,
                         SumOver(ScoreAt(ret.source_ids), PresentAt(ret.source_ids)),
                         Cardinality(PresentAt(ret.source_ids)))

\* C5 amended: the scores of the listed identifiers present in the registry
\* are summed and divided by the length of the whole list (an absent
\* identifier adds nothing to the sum but counts in the denominator), capped
\* at 1.0; the empty list gives 0.0.
C5_SumOverListLength ==
  ret.op = "calculate_confidence" =>
    IF Len(ret.source_ids) = 0 THEN ret.value.num = 0
    ELSE IsCappedRatio(ret.value,
                       SumOver(ScoreAt(ret.source_ids), PresentAt(ret.source_ids)),
                       Len(ret.source_ids))

\* a list with a stored and an unknown identifier was scored
C5_Witness ==
  /\ ret.op = "calculate_confidence"
  /\ PresentAt(ret.source_ids) # {}
  /\ PresentAt(ret.source_ids) # 1..Len(ret.source_ids)
  /\ ret.value.num > 0

\* C6: calculate_confidence returns a value in [0, 1] whatever the stored
\* scores, and exactly 0.0 for the empty list.
C6_ConfidenceInUnitInterval ==
  ret.op = "calculate_confidence" =>
    /\ Len(ret.source_ids) = 0 => ret.value.num = 0
    /\ 0 <= ret.value.num
    /\ ret.value.num <= One * ret.value.den

\* C7: for n stored sources the bibliography has min(n, 10) rows numbered
\* 1..min(n, 10): the sources with the smallest suffixes, ascending.
C7_BibliographyCap ==
  ret.op = "format_sources_list" =>
    LET rows == ret.value
        k == IF Len(Registry) < BibCap THEN Len(Registry) ELSE BibCap
        listed == {rows[i].source_id : i \in 1..Len(rows)}
    IN /\ Len(rows) = k
       /\ \A i \in 1..Len(rows) :
            /\ rows[i].n = i
            /\ dict_has(Registry, rows[i].source_id)
            /\ rows[i].url = dict_get(Registry, rows[i].source_id).url
            /\ rows[i].title = dict_get(Registry, rows[i].source_id).title
            /\ rows[i].domain = dict_get(Registry, rows[i].source_id).domain
       /\ \A i, j \in 1..Len(rows) :
            i < j => IdSuffix(rows[i].source_id) < IdSuffix(rows[j].source_id)
       /\ \A i \in 1..Len(Registry) :
            Registry[i][1] \notin listed =>
              \A id \in listed : IdSuffix(id) < IdSuffix(Registry[i][1])

\* more sources than the cap, and exactly the cap listed
C7_Witness ==
  /\ ret.op = "format_sources_list"
  /\ Len(Registry) = BibCap + 1
  /\ Len(ret.value) = BibCap

\* C8: rank_sources returns a permutation of its input with every score
\* replaced by the mean of the original score and the domain weight, in
\* descending order of that score, equal scores in input order.
C8_RankSources ==
  rank_out.called =>
    LET out == rank_out.value
        weight(d) == CASE d = "wikipedia.org" -> 90
                       [] d = "reddit.com" -> 70
                       [] OTHER -> 50
    IN /\ Len(out) = Len(rank_in)
       /\ \A i \in 1..Len(rank_in) :
            \E j \in 1..Len(out) :
              /\ out[j].url = rank_in[i].url
              /\ out[j].domain = rank_in[i].domain
              /\ out[j].title = rank_in[i].title
              /\ 2 * out[j].relevance_score =
                   rank_in[i].relevance_score + weight(rank_in[i].domain)
       /\ \A j, k \in 1..Len(out) :
            j < k =>
              /\ out[j].relevance_score >= out[k].relevance_score
              /\ out[j].relevance_score = out[k].relevance_score =>
                   out[j].url < out[k].url

\* two sources of different domains end with the same blended score, and a
\* later source outranks an earlier one
C8_Witness ==
  /\ rank_out.called
  /\ \E j, k \in 1..Len(rank_out.value) :
       /\ j < k
       /\ rank_out.value[j].relevance_score = rank_out.value[k].relevance_score
       /\ rank_out.value[j].domain # rank_out.value[k].domain
  /\ \E j, k \in 1..Len(rank_out.value) :
       j < k /\ rank_out.value[j].url > rank_out.value[k].url

RECURSIVE Markers(_, _)
Markers(m, source_ids) ==
  IF Len(source_ids) = 0 THEN <<>>
  ELSE <<"[">> \o IntToStr(get_citation_number(m, source_ids[1])) \o <<"]">>
       \o Markers(m, Tail(source_ids))

\* C9: create_cited_content returns the input text followed immediately by
\* the markers [k1]...[kN] of the identifiers, in their order.
C9_TextThenMarkers ==
  ret.op = "create_cited_content" =>
    ret.value.content = cite_in.content \o Markers(cm, cite_in.source_ids)

LastMessage == gstate.messages[Len(gstate.messages)]

PipeRegistryFresh(m) ==
  /\ dict_keys(m.source_registry) =
       [i \in 1..Len(m.source_registry) |-> FormatId(i)]
  /\ \A i \in 1..Len(m.source_registry) :
       /\ m.source_registry[i][2].timestamp = qn
       /\ \E h \in 1..Len(found) : found[h].url = m.source_registry[i][2].url

\* C10: when a query's answer is annotated and its bibliography rendered,
\* the registry holds only sources found by that query's searches, under
\* identifiers src_1, src_2, ..., and the same holds of the search agent's
\* registry once the search of the query is complete.
C10_FreshRepositoryPerQuery ==
  /\ gstate.processing_stage \in {"search_complete", "synthesis_complete"} =>
       PipeRegistryFresh(search_cm)
  /\ gstate.processing_stage = "synthesis_complete" =>
       /\ PipeRegistryFresh(synth_cm)
       /\ LastMessage.type = "ai"
       /\ Len(LastMessage.content.sources_list) = Len(synth_cm.source_registry)
       /\ \A i \in 1..Len(LastMessage.content.sources_list) :
            \E h \in 1..Len(found) :
              found[h].url = LastMessage.content.sources_list[i].url

\* a second query is answered after a first one was answered with sources
C10_Witness ==
  /\ qn >= 2
  /\ gstate.processing_stage = "synthesis_complete"
  /\ Len(synth_cm.source_registry) > 0
  /\ \E i \in 1..Len(gstate.messages) :
       /\ i < Len(gstate.messages)
       /\ gstate.messages[i].type = "ai"
       /\ Len(gstate.messages[i].content.sources_list) > 0

====
